---- MODULE Spec2Model ----
(***************************************************************************)
(* Model of opynions: the opinion adjustment rule (rho,                    *)
(* UCM_adjust_opinion), the simulation engine (run_sim) and the parallel   *)
(* sweep (multiprocess_all).                                               *)
(*                                                                         *)
(* Real numbers are exact rationals <<n, d>> in lowest terms with d > 0.   *)
(* Python computes on IEEE doubles; rounding is not modelled.              *)
(***************************************************************************)
EXTENDS Integers, Sequences, FiniteSets, TLC

(* ---------------- bounds of the model ---------------- *)

\* opinions, mu and epsilon given to the adjustment rule are multiples of 1/Grid
Grid == 10

\* how far outside their domain the arguments of the pure functions go, in steps of 1/Grid
Outside == 2

\* run_sim is called with integer N in 0..MaxN, integer T in 0..MaxT, m_ba in 1..MaxM
MaxN == 3

MaxT == 2

MaxM == 2

\* initial opinions, mu and epsilon of a run are multiples of 1/RunGrid
RunGrid == 2

\* multiprocess_all is called with lists of at most MaxVals values, on 1..MaxCpu cpus
MaxVals == 2

MaxCpu == 2

(* ---------------- exact rational arithmetic ---------------- *)

RECURSIVE GCD(_, _)
GCD(a, b) == IF b = 0 THEN a ELSE GCD(b, a % b)

IAbs(n) == IF n < 0 THEN -n ELSE n

Rat(n, d) ==
    LET s == IF d < 0 THEN -1 ELSE 1
        k == GCD(IAbs(n), IAbs(d))
    IN  <<(s * n) \div k, (s * d) \div k>>

Sub(a, b) == Rat(a[1] * b[2] - b[1] * a[2], a[2] * b[2])

Add(a, b) == Rat(a[1] * b[2] + b[1] * a[2], a[2] * b[2])

Mul_as_add(a, b) == Rat(a[1] * b[2] + b[1] * a[2], a[2] * b[2])

Mul(a, b) == Rat(a[1] * b[1], a[2] * b[2])

Lt(a, b) == a[1] * b[2] < b[1] * a[2]

Le(a, b) == a[1] * b[2] <= b[1] * a[2]

abs(a) == <<IAbs(a[1]), a[2]>>

max(a, b) == IF Lt(a, b) THEN b ELSE a

min(a, b) == IF Lt(b, a) THEN b ELSE a

Zero == Rat(0, 1)

One == Rat(1, 1)

Half == Rat(1, 2)

Neg(a) == <<-a[1], a[2]>>

Unit(a) == Le(Zero, a) /\ Le(a, One)

(* ---------------- rho ---------------- *)

\* a returned value, or the exception that left the function
Returned(v) == [err |-> "none", val |-> v]

Raise(e) == [err |-> e, val |-> Zero]

rho_upper_open(x) ==
    IF ~(Le(Neg(One), x) /\ Le(x, One)) THEN Raise("AssertionError")
    ELSE IF Le(Neg(One), x) /\ Lt(x, Neg(Half)) THEN Returned(Neg(One))
    ELSE IF Le(Neg(Half), x) /\ Lt(x, Half) THEN Returned(Zero)
    ELSE IF Le(Half, x) /\ Le(x, One) THEN Returned(One)
    ELSE Raise("None")

rho_lower_closed(x) ==
    IF ~(Le(Neg(One), x) /\ Le(x, One)) THEN Raise("AssertionError")
    ELSE IF Le(Neg(One), x) /\ Le(x, Neg(Half)) THEN Returned(Neg(One))
    ELSE IF Lt(Neg(Half), x) /\ Le(x, Half) THEN Returned(Zero)
    ELSE IF Lt(Half, x) /\ Le(x, One) THEN Returned(One)
    ELSE Raise("None")

rho(x) ==
    IF ~(Le(Neg(One), x) /\ Le(x, One)) THEN Raise("AssertionError")
    ELSE IF Le(Neg(One), x) /\ Lt(x, Neg(Half)) THEN Returned(Neg(One))
    ELSE IF Le(Neg(Half), x) /\ Le(x, Half) THEN Returned(Zero)
    ELSE IF Lt(Half, x) /\ Le(x, One) THEN Returned(One)
    ELSE Raise("None")

(* ---------------- UCM_adjust_opinion ---------------- *)

\* the returned pair; branch records which of the two ifs produced it
Pair(a, b, br) == [err |-> "none", i_new |-> a, j_new |-> b, branch |-> br]

Fail(e) == [err |-> e, i_new |-> Zero, j_new |-> Zero, branch |-> "none"]

clamp_off(v) == v

clamp(v) == max(Zero, min(One, v))

UCM_adjust_opinion_same_dist(i, j, mu, epsilon) ==
    IF ~Unit(i) \/ ~Unit(j) THEN Fail("AssertionError")
    ELSE
    LET i_min_j == Sub(i, j)
        alt_dist == Sub(i_min_j, rho(Sub(i, j)).val)
        abs_alt_dist == abs(alt_dist)
        j_min_i == Sub(j, i)
        i_1 == Add(i, Mul(mu, j_min_i))
        j_1 == Add(j, Mul(mu, i_min_j))
        i_2 == Sub(i, Mul(mu, alt_dist))
        j_2 == Sub(j, Mul(mu, alt_dist))
    IN  IF Le(epsilon, abs_alt_dist)
        THEN Pair(clamp(i_2), clamp(j_2), "repel")
        ELSE IF Lt(abs_alt_dist, epsilon)
             THEN Pair(i_1, j_1, "assimilate")
             ELSE Fail("UnboundLocalError")

UCM_adjust_opinion(i, j, mu, epsilon) ==
    IF ~Unit(i) \/ ~Unit(j) THEN Fail("AssertionError")
    ELSE
    LET i_min_j == Sub(i, j)
        alt_dist == Sub(i_min_j, rho(Sub(i, j)).val)
        abs_alt_dist == abs(alt_dist)
        j_min_i == Sub(j, i)
        \* if abs_alt_dist < epsilon
        i_1 == Add(i, Mul(mu, j_min_i))
        j_1 == Add(j, Mul(mu, i_min_j))
        \* if abs_alt_dist >= epsilon
        i_2 == Sub(i, Mul(mu, Sub(j_min_i, rho(Sub(j, i)).val)))
        j_2 == Sub(j, Mul(mu, alt_dist))
    IN  \* the second if runs after the first and overwrites its result
        IF Le(epsilon, abs_alt_dist)
        THEN Pair(clamp(i_2), clamp(j_2), "repel")
        ELSE IF Lt(abs_alt_dist, epsilon)
             THEN Pair(i_1, j_1, "assimilate")
             ELSE Fail("UnboundLocalError")

(* ---------------- state ---------------- *)

VARIABLES
    \* a call of one pure function with drawn arguments
    fn,         \* "rho", "adjust" or "idle"
    arg,        \* [x, i, j, mu, epsilon]: the arguments
    rho_ret,    \* what rho(x) gave, or NotCalled
    adj_ret,    \* what UCM_adjust_opinion(i, j, mu, epsilon) gave, or NotCalled
    swap_ret,   \* what UCM_adjust_opinion(j, i, mu, epsilon) gave, or NotCalled
    \* one call of run_sim
    pc,         \* where run_sim is, or the exception that ended it
    N, T, mu, epsilon, m_ba,    \* its arguments; N and T carry their Python type
    graphs,     \* the graph objects: object id -> [nodes, opinion, edges]
    g,          \* object id of the running graph, 0 before it exists
    g_init,     \* object id of the initial snapshot, 0 before it exists
    t,          \* the sweep counter of  for t in range(T)
    nodes,      \* the shuffled node list of the current sweep
    pos,        \* index into nodes of the node processed next
    node, neighbor, new_neighbor,   \* locals of the loop body, -1 when unset
    post_init,  \* history: the graph as initialize_graph returned it
    last_branch,    \* history: the branch of the interaction whose rewire is under way
    \* one call of multiprocess_all or of multiprocess_variance_epsilon
    called,         \* which of the two was called, "idle" when none
    sw_pc,          \* where the call is, or the exception that ended it
    epsilon_values, mu_values,  \* its list arguments
    cpu_count,      \* mp.cpu_count()
    param_grid,     \* the argument tuples given to starmap
    num_workers,    \* the size of the pool
    task,           \* per grid index: "queued", "running", "done" or "failed"
    mapres,         \* the MapResult of starmap: [success, value, number_left]
    list_of_dicts,  \* what the call returned (list_of_variances), NoneVal before
    out_of_order    \* history: some worker ended before one of a lower grid index

fvars == <<fn, arg, rho_ret, adj_ret, swap_ret>>

rvars == <<pc, N, T, mu, epsilon, m_ba, graphs, g, g_init, t, nodes, pos,
           node, neighbor, new_neighbor, post_init, last_branch>>

svars == <<called, sw_pc, epsilon_values, mu_values, cpu_count, param_grid, num_workers,
           task, mapres, list_of_dicts, out_of_order>>

vars == <<fvars, rvars, svars>>

NotCalled == [err |-> "not called"]

\* k/Grid for k in lo..hi
GridValues(lo, hi) == {Rat(k, Grid) : k \in lo..hi}

NoArg == [x |-> Zero, i |-> Zero, j |-> Zero, mu |-> Zero, epsilon |-> Zero]

IdleFn == fn = "idle" /\ arg = NoArg /\ rho_ret = NotCalled /\ adj_ret = NotCalled
          /\ swap_ret = NotCalled

NoGraph == [nodes |-> {}, opinion |-> <<>>, edges |-> {}]

IdleRun ==
    /\ pc = "idle" /\ N = [v |-> Zero, int |-> TRUE] /\ T = [v |-> Zero, int |-> TRUE]
    /\ mu = Zero /\ epsilon = Zero /\ m_ba = 0
    /\ graphs = <<>> /\ g = 0 /\ g_init = 0 /\ t = 0 /\ nodes = <<>> /\ pos = 0
    /\ node = -1 /\ neighbor = -1 /\ new_neighbor = -1 /\ post_init = NoGraph
    /\ last_branch = "none"

NoneVal == [none |-> TRUE]

NoMapResult == [success |-> TRUE, value |-> <<>>, number_left |-> 0]

IdleSweep ==
    /\ called = "idle" /\ sw_pc = "idle" /\ epsilon_values = <<>> /\ mu_values = <<>> /\ cpu_count = 0
    /\ param_grid = <<>> /\ num_workers = 0 /\ task = <<>> /\ mapres = NoMapResult
    /\ list_of_dicts = NoneVal /\ out_of_order = FALSE

(* ---------------- the pure functions, called on drawn arguments ---------------- *)

InitAdjust ==
    /\ IdleRun
    /\ IdleSweep
    /\ rho_ret = NotCalled /\ adj_ret = NotCalled /\ swap_ret = NotCalled
    /\ \/ /\ fn = "rho"
          /\ \E x \in GridValues(-Grid - Outside, Grid + Outside) :
                arg = [NoArg EXCEPT !.x = x]
       \/ /\ fn = "adjust"
          /\ \E i \in GridValues(-1, Grid + 1), j \in GridValues(-1, Grid + 1),
                m \in GridValues(0, Grid), e \in GridValues(0, Grid) :
                arg = [NoArg EXCEPT !.i = i, !.j = j, !.mu = m, !.epsilon = e]

CallRho ==
    /\ fn = "rho" /\ rho_ret = NotCalled
    /\ rho_ret' = rho(arg.x)
    /\ UNCHANGED <<fn, arg, adj_ret, swap_ret, rvars, svars>>

CallAdjust ==
    /\ fn = "adjust" /\ adj_ret = NotCalled
    /\ adj_ret' = UCM_adjust_opinion(arg.i, arg.j, arg.mu, arg.epsilon)
    /\ UNCHANGED <<fn, arg, rho_ret, swap_ret, rvars, svars>>

CallAdjustSwapped ==
    /\ fn = "adjust" /\ swap_ret = NotCalled
    /\ swap_ret' = UCM_adjust_opinion(arg.j, arg.i, arg.mu, arg.epsilon)
    /\ UNCHANGED <<fn, arg, rho_ret, adj_ret, rvars, svars>>

NextAdjust == CallRho \/ CallAdjust \/ CallAdjustSwapped

SpecAdjust == InitAdjust /\ [][NextAdjust]_vars

(* ---------------- the graph (networkx.Graph) ---------------- *)

\* an undirected edge is the set of its endpoints; a self-loop is a singleton
Edge(u, v) == {u, v}

neighbors_everyone(G, n) == G.nodes \ {n}

neighbors(G, n) == {v \in G.nodes : Edge(n, v) \in G.edges}

remove_edge_none(G, u, v) == G

remove_edge(G, u, v) == [G EXCEPT !.edges = @ \ {Edge(u, v)}]

add_edge_none(G, u, v) == G

\* add_edge creates endpoints that are not nodes yet, without an opinion
add_edge(G, u, v) ==
    [G EXCEPT !.nodes = @ \cup {u, v}, !.edges = @ \cup {Edge(u, v)}]

\* g.nodes[n]['opinion'] = o
set_opinion(G, n, o) ==
    [G EXCEPT !.opinion = [x \in (DOMAIN @) \cup {n} |-> IF x = n THEN o ELSE @[x]]]

\* nx.star_graph(m): nodes 0..m, centre 0
star_graph(m) == {Edge(0, k) : k \in 1..m}

\* the edge sets nx.barabasi_albert_graph(n, m) can return: from the star, each
\* further node source < n is joined to m distinct existing nodes
RECURSIVE barabasi_albert_graph(_, _, _, _)
barabasi_albert_graph(source, n, m, E) ==
    IF ~Lt(Rat(source, 1), n) THEN {E}
    ELSE UNION {barabasi_albert_graph(source + 1, n, m,
                                      E \cup {Edge(source, w) : w \in targets}) :
                targets \in {S \in SUBSET (0..(source - 1)) : Cardinality(S) = m}}

\* random.uniform(0, 1), on the grid of the model
OpinionValues == {Rat(k, RunGrid) : k \in 0..RunGrid}

\* initialize_graph(N, m_ba): the graphs it can return
initialize_graph(n, m) ==
    {[nodes |-> 0..m \cup {k \in 0..(MaxN + 1) : Lt(Rat(k, 1), n)},
      opinion |-> o, edges |-> E] :
        E \in barabasi_albert_graph(m + 1, n, m, star_graph(m)),
        o \in [0..m \cup {k \in 0..(MaxN + 1) : Lt(Rat(k, 1), n)} -> OpinionValues]}

\* g.copy(): the object id of the new graph
copy_alias(src) == src

copy(src) == src + 1

\* random.shuffle(nodes): the orders it can leave
shuffle(S) ==
    {p \in [1..Cardinality(S) -> S] : \A a, b \in 1..Cardinality(S) : p[a] = p[b] => a = b}

\* list(g.nodes()) as drawn from by random.choice for the new neighbor
choice_nodes_off_by_one(G) == G.nodes \cup {Cardinality(G.nodes)}

choice_nodes(G) == G.nodes

\* the rewire test  abs(i_new - j_new) > epsilon
too_far_or_equal(i_new, j_new, e) == Le(e, abs(Sub(i_new, j_new)))

too_far(i_new, j_new, e) == Lt(e, abs(Sub(i_new, j_new)))

\* the condition of  while new_neighbor == node
while_same_never(w, n) == FALSE

while_same(w, n) == w = n

(* ---------------- run_sim ---------------- *)

\* 1 & isinstance(v, int)
and_isinstance(v) == IF v.int THEN 1 ELSE 0

\* the four assert statements
asserts_pass(n, tt, m, e) ==
    /\ Lt(Rat(and_isinstance(n), 1), n.v)
    /\ Lt(Rat(and_isinstance(tt), 1), tt.v)
    /\ Le(Zero, m) /\ Le(m, One)
    /\ Le(Zero, e) /\ Le(e, One)

PyInt(k) == [v |-> Rat(k, 1), int |-> TRUE]

PyFloat(n, d) == [v |-> Rat(n, d), int |-> FALSE]

\* the real arguments the model calls run_sim with: in and out of [0,1]
RunValues == {Rat(k, RunGrid) : k \in (-1)..(RunGrid + 1)}

Init ==
    /\ IdleFn
    /\ IdleSweep
    /\ pc = "call"
    /\ N \in {PyInt(k) : k \in 0..MaxN} \cup {PyFloat(1, 2), PyFloat(1, 1)}
    /\ T \in {PyInt(k) : k \in 0..MaxT} \cup {PyFloat(1, 2), PyFloat(3, 2)}
    /\ mu \in RunValues
    /\ epsilon \in RunValues
    /\ m_ba \in 1..MaxM
    /\ graphs = <<>> /\ g = 0 /\ g_init = 0 /\ t = 0 /\ nodes = <<>> /\ pos = 0
    /\ node = -1 /\ neighbor = -1 /\ new_neighbor = -1 /\ post_init = NoGraph
    /\ last_branch = "none"

\* lines 84-87
Validate ==
    /\ pc = "call"
    /\ pc' = IF asserts_pass(N, T, mu, epsilon) THEN "initialize" ELSE "AssertionError"
    /\ UNCHANGED <<fvars, svars, N, T, mu, epsilon, m_ba, graphs, g, g_init, t, nodes, pos,
                   node, neighbor, new_neighbor, post_init, last_branch>>

\* line 89 when the generator refuses m_ba, N
InitializeFails ==
    /\ pc = "initialize"
    /\ m_ba < 1 \/ Le(N.v, Rat(m_ba, 1))
    /\ pc' = "NetworkXError"
    /\ UNCHANGED <<fvars, svars, N, T, mu, epsilon, m_ba, graphs, g, g_init, t, nodes, pos,
                   node, neighbor, new_neighbor, post_init, last_branch>>

\* lines 89-90
Initialize ==
    /\ pc = "initialize"
    /\ ~(m_ba < 1 \/ Le(N.v, Rat(m_ba, 1)))
    /\ \E G \in initialize_graph(N.v, m_ba) :
          /\ g' = 1
          /\ g_init' = copy(1)
          /\ graphs' = [o \in {1, copy(1)} |-> G]
          /\ post_init' = G
    /\ t' = 0
    /\ pc' = "for_t"
    /\ UNCHANGED <<fvars, svars, N, T, mu, epsilon, m_ba, nodes, pos,
                   node, neighbor, new_neighbor, last_branch>>

\* line 91: range(T) on a float
RangeFails ==
    /\ pc = "for_t"
    /\ ~T.int
    /\ pc' = "TypeError"
    /\ UNCHANGED <<fvars, svars, N, T, mu, epsilon, m_ba, graphs, g, g_init, t, nodes, pos,
                   node, neighbor, new_neighbor, post_init, last_branch>>

\* lines 91-94: the next sweep starts with a shuffled node list
SweepStart ==
    /\ pc = "for_t"
    /\ T.int
    /\ Lt(Rat(t, 1), T.v)
    /\ nodes' \in shuffle(graphs[g].nodes)
    /\ pos' = 1
    /\ pc' = "for_node"
    /\ UNCHANGED <<fvars, svars, N, T, mu, epsilon, m_ba, graphs, g, g_init, t,
                   node, neighbor, new_neighbor, post_init, last_branch>>

\* line 117
Return ==
    /\ pc = "for_t"
    /\ T.int
    /\ ~Lt(Rat(t, 1), T.v)
    /\ pc' = "done"
    /\ UNCHANGED <<fvars, svars, N, T, mu, epsilon, m_ba, graphs, g, g_init, t, nodes, pos,
                   node, neighbor, new_neighbor, post_init, last_branch>>

\* line 95: the node list is exhausted
SweepEnd ==
    /\ pc = "for_node"
    /\ pos > Len(nodes)
    /\ t' = t + 1
    /\ nodes' = <<>>
    /\ pos' = 0
    /\ pc' = "for_t"
    /\ UNCHANGED <<fvars, svars, N, T, mu, epsilon, m_ba, graphs, g, g_init,
                   node, neighbor, new_neighbor, post_init, last_branch>>

\* line 97: a node without neighbors is passed over
SkipIsolated ==
    /\ pc = "for_node"
    /\ pos <= Len(nodes)
    /\ neighbors(graphs[g], nodes[pos]) = {}
    /\ pos' = pos + 1
    /\ UNCHANGED <<fvars, svars, pc, N, T, mu, epsilon, m_ba, graphs, g, g_init, t, nodes,
                   node, neighbor, new_neighbor, post_init, last_branch>>

\* lines 97-110: pick a neighbor, adjust and write both opinions, decide the rewire
Interact ==
    /\ pc = "for_node"
    /\ pos <= Len(nodes)
    /\ neighbors(graphs[g], nodes[pos]) # {}
    /\ \E nb \in neighbors(graphs[g], nodes[pos]) :
        LET G == graphs[g]
            n == nodes[pos]
        IN  IF n \notin DOMAIN G.opinion \/ nb \notin DOMAIN G.opinion
            THEN /\ pc' = "KeyError"
                 /\ UNCHANGED <<graphs, pos, node, neighbor, new_neighbor, last_branch>>
            ELSE
            LET r == UCM_adjust_opinion(G.opinion[n], G.opinion[nb], mu, epsilon)
                written == set_opinion(set_opinion(G, n, r.i_new), nb, r.j_new)
            IN  IF r.err # "none"
                THEN /\ pc' = r.err
                     /\ UNCHANGED <<graphs, pos, node, neighbor, new_neighbor, last_branch>>
                ELSE /\ graphs' = [graphs EXCEPT ![g] = written]
                     /\ IF too_far(r.i_new, r.j_new, epsilon)
                        THEN /\ \E w \in choice_nodes(written) : new_neighbor' = w
                             /\ node' = n
                             /\ neighbor' = nb
                             /\ last_branch' = r.branch
                             /\ pc' = "while"
                             /\ pos' = pos
                        ELSE /\ pos' = pos + 1
                             /\ pc' = "for_node"
                             /\ UNCHANGED <<node, neighbor, new_neighbor, last_branch>>
    /\ UNCHANGED <<fvars, svars, N, T, mu, epsilon, m_ba, g, g_init, t, nodes, post_init>>

\* lines 112-113: the drawn node is the node itself, draw again
Redraw ==
    /\ pc = "while"
    /\ while_same(new_neighbor, node)
    /\ \E w \in choice_nodes(graphs[g]) : new_neighbor' = w
    /\ UNCHANGED <<fvars, svars, pc, N, T, mu, epsilon, m_ba, graphs, g, g_init, t, nodes, pos,
                   node, neighbor, post_init, last_branch>>

\* lines 114-115
Rewire ==
    /\ pc = "while"
    /\ ~while_same(new_neighbor, node)
    /\ graphs' = [graphs EXCEPT
                    ![g] = add_edge(remove_edge(@, node, neighbor), node, new_neighbor)]
    /\ node' = -1 /\ neighbor' = -1 /\ new_neighbor' = -1
    /\ last_branch' = "none"
    /\ pos' = pos + 1
    /\ pc' = "for_node"
    /\ UNCHANGED <<fvars, svars, N, T, mu, epsilon, m_ba, g, g_init, t, nodes, post_init>>

Next ==
    \/ Validate
    \/ InitializeFails
    \/ Initialize
    \/ RangeFails
    \/ SweepStart
    \/ Return
    \/ SweepEnd
    \/ SkipIsolated
    \/ Interact
    \/ Redraw
    \/ Rewire

Spec == Init /\ [][Next]_vars

(* ---------------- multiprocess_all ---------------- *)

\* list(itertools.product(xs, ys)): xs-major
product(xs, ys) ==
    [k \in 1..(Len(xs) * Len(ys)) |->
        <<xs[((k - 1) \div Len(ys)) + 1], ys[((k - 1) % Len(ys)) + 1]>>]

\* combined_analysis runs run_sim on the point: it raises what run_sim raises,
\* and otherwise returns the analysis fields computed for that point
combined_analysis(n_nodes, time_steps, e, m) ==
    IF asserts_pass(n_nodes, time_steps, m, e)
    THEN [err |-> "none", dict |-> [analysis |-> <<e, m>>]]
    ELSE [err |-> "AssertionError", dict |-> NoneVal]

worker_all_both_params_swapped(e, m, n_nodes, time_steps) ==
    LET r == combined_analysis(n_nodes, time_steps, e, m)
    IN  IF r.err # "none" THEN r
        ELSE [err |-> "none",
              dict |-> [analysis |-> r.dict.analysis, epsilon |-> m, mu |-> e]]

\* worker_all_both_params: the dict of combined_analysis with the two keys added
worker_all_both_params(e, m, n_nodes, time_steps) ==
    LET r == combined_analysis(n_nodes, time_steps, e, m)
    IN  IF r.err # "none" THEN r
        ELSE [err |-> "none",
              dict |-> [analysis |-> r.dict.analysis, epsilon |-> e, mu |-> m]]

\* opinions_variance runs run_sim with the epsilon: it raises what run_sim raises,
\* and otherwise returns the variance computed for that epsilon
opinions_variance(n_nodes, time_steps, e, m) ==
    IF asserts_pass(n_nodes, time_steps, m, e)
    THEN [err |-> "none", dict |-> [variance_of |-> e]]
    ELSE [err |-> "AssertionError", dict |-> NoneVal]

\* worker_variance_epsilons(epsilon, m_ba)
worker_variance_epsilons(e, m) ==
    opinions_variance(PyInt(200), PyInt(100), e, Rat(48, 100))

\* the slot of MapResult._value a finished task's result is stored in
slot_by_completion(mr, i) == Len(mr.value) - mr.number_left + 1

slot(mr, i) == i

\* MapResult._set(i, (success, result))
MapResult_set(mr, i, r) ==
    IF r.err = "none" /\ mr.success
    THEN [mr EXCEPT !.number_left = @ - 1,
                    !.value = [@ EXCEPT ![slot(mr, i)] = r.dict]]
    ELSE IF r.err # "none" /\ mr.success
         THEN [success |-> FALSE, value |-> r.err, number_left |-> mr.number_left - 1]
         ELSE [mr EXCEPT !.number_left = @ - 1]

Min(a, b) == IF a < b THEN a ELSE b

\* the lists of at most MaxVals values drawn from S
Lists(S) == UNION {[1..n -> S] : n \in 0..MaxVals}

\* values given as epsilon and mu of a sweep: 3/2 is outside [0,1]
SweepValues == {Zero, Half, Rat(3, 2)}

InitSweep ==
    /\ IdleFn
    /\ IdleRun
    /\ sw_pc = "call"
    /\ epsilon_values \in Lists(SweepValues)
    /\ \/ called = "multiprocess_all" /\ mu_values \in Lists(SweepValues)
       \/ called = "multiprocess_variance_epsilon" /\ mu_values = <<>>
    /\ cpu_count \in 1..MaxCpu
    /\ param_grid = <<>> /\ num_workers = 0 /\ task = <<>> /\ mapres = NoMapResult
    /\ list_of_dicts = NoneVal /\ out_of_order = FALSE

\* lines 35-37 with an empty grid: mp.Pool(0) raises
PoolFails ==
    /\ called = "multiprocess_all"
    /\ sw_pc = "call"
    /\ Min(cpu_count, Len(product(epsilon_values, mu_values))) < 1
    /\ param_grid' = product(epsilon_values, mu_values)
    /\ num_workers' = Min(cpu_count, Len(param_grid'))
    /\ sw_pc' = "ValueError"
    /\ UNCHANGED <<fvars, rvars, called, epsilon_values, mu_values, cpu_count, task, mapres,
                   list_of_dicts, out_of_order>>

\* lines 35-38: the pool is created and starmap queues one task per grid point
StartMap ==
    /\ called = "multiprocess_all"
    /\ sw_pc = "call"
    /\ Min(cpu_count, Len(product(epsilon_values, mu_values))) >= 1
    /\ param_grid' = product(epsilon_values, mu_values)
    /\ num_workers' = Min(cpu_count, Len(param_grid'))
    /\ task' = [k \in 1..Len(param_grid') |-> "queued"]
    /\ mapres' = [success |-> TRUE,
                  value |-> [k \in 1..Len(param_grid') |-> NoneVal],
                  number_left |-> Len(param_grid')]
    /\ sw_pc' = "starmap"
    /\ UNCHANGED <<fvars, rvars, called, epsilon_values, mu_values, cpu_count,
                   list_of_dicts, out_of_order>>

\* lines 49-50 with an empty list: mp.Pool(0) raises
VariancePoolFails ==
    /\ called = "multiprocess_variance_epsilon"
    /\ sw_pc = "call"
    /\ Min(cpu_count, Len(epsilon_values)) < 1
    /\ num_workers' = Min(cpu_count, Len(epsilon_values))
    /\ sw_pc' = "ValueError"
    /\ UNCHANGED <<fvars, rvars, called, epsilon_values, mu_values, cpu_count, param_grid,
                   task, mapres, list_of_dicts, out_of_order>>

\* lines 49-51: the pool is created and starmap queues one task per epsilon
VarianceStartMap ==
    /\ called = "multiprocess_variance_epsilon"
    /\ sw_pc = "call"
    /\ Min(cpu_count, Len(epsilon_values)) >= 1
    /\ num_workers' = Min(cpu_count, Len(epsilon_values))
    /\ param_grid' = [k \in 1..Len(epsilon_values) |-> <<epsilon_values[k], MaxM>>]
    /\ task' = [k \in 1..Len(epsilon_values) |-> "queued"]
    /\ mapres' = [success |-> TRUE,
                  value |-> [k \in 1..Len(epsilon_values) |-> NoneVal],
                  number_left |-> Len(epsilon_values)]
    /\ sw_pc' = "starmap"
    /\ UNCHANGED <<fvars, rvars, called, epsilon_values, mu_values, cpu_count,
                   list_of_dicts, out_of_order>>

\* an idle pool process takes the next task of the queue
TaskStart ==
    /\ sw_pc = "starmap"
    /\ Cardinality({k \in DOMAIN task : task[k] = "running"}) < num_workers
    /\ \E i \in DOMAIN task :
          /\ task[i] = "queued"
          /\ \A k \in 1..(i - 1) : task[k] # "queued"
          /\ task' = [task EXCEPT ![i] = "running"]
    /\ UNCHANGED <<fvars, rvars, called, sw_pc, epsilon_values, mu_values, cpu_count, param_grid,
                   num_workers, mapres, list_of_dicts, out_of_order>>

\* a pool process ends worker_all_both_params on its point and the result is set
TaskFinish ==
    /\ sw_pc = "starmap"
    /\ \E i \in DOMAIN task :
          /\ task[i] = "running"
          /\ LET r == IF called = "multiprocess_all"
                      THEN worker_all_both_params(param_grid[i][1], param_grid[i][2],
                                                  PyInt(MaxN), PyInt(MaxT))
                      ELSE worker_variance_epsilons(param_grid[i][1], param_grid[i][2])
             IN  /\ task' = [task EXCEPT ![i] = IF r.err = "none" THEN "done" ELSE "failed"]
                 /\ mapres' = MapResult_set(mapres, i, r)
          /\ out_of_order' = (out_of_order \/ \E k \in 1..(i - 1) : task[k] = "running")
    /\ UNCHANGED <<fvars, rvars, called, sw_pc, epsilon_values, mu_values, cpu_count, param_grid,
                   num_workers, list_of_dicts>>

\* lines 38-40: every task has ended and none failed
MapReturns ==
    /\ sw_pc = "starmap"
    /\ mapres.number_left = 0
    /\ mapres.success
    /\ list_of_dicts' = mapres.value
    /\ sw_pc' = "returned"
    /\ UNCHANGED <<fvars, rvars, called, epsilon_values, mu_values, cpu_count, param_grid,
                   num_workers, task, mapres, out_of_order>>

\* line 38: every task has ended and starmap raises the first failure
MapRaises ==
    /\ sw_pc = "starmap"
    /\ mapres.number_left = 0
    /\ ~mapres.success
    /\ sw_pc' = mapres.value
    /\ UNCHANGED <<fvars, rvars, called, epsilon_values, mu_values, cpu_count, param_grid,
                   num_workers, task, mapres, list_of_dicts, out_of_order>>

NextSweep ==
    \/ PoolFails
    \/ StartMap
    \/ VariancePoolFails
    \/ VarianceStartMap
    \/ TaskStart
    \/ TaskFinish
    \/ MapReturns
    \/ MapRaises

SpecSweep == InitSweep /\ [][NextSweep]_vars

(* ---------------- claims about the pure functions (SpecAdjust) ---------------- *)

ValidArgs == Unit(arg.i) /\ Unit(arg.j) /\ Unit(arg.mu) /\ Unit(arg.epsilon)

\* the classifier of the periodic distance as the specification tabulates it
PeriodicClass(x) ==
    IF Lt(x, Neg(Half)) THEN Neg(One) ELSE IF Le(x, Half) THEN Zero ELSE One

\* |(i - j) - rho(i - j)|
PeriodicDistance(i, j) == abs(Sub(Sub(i, j), PeriodicClass(Sub(i, j))))

\* the repulsion results before clamping
RepelI(i, j, m) == Sub(i, Mul(m, Sub(Sub(j, i), PeriodicClass(Sub(j, i)))))

RepelJ(i, j, m) == Sub(j, Mul(m, Sub(Sub(i, j), PeriodicClass(Sub(i, j)))))

Clamped(v) == IF Lt(v, Zero) THEN Zero ELSE IF Lt(One, v) THEN One ELSE v

\* C1: for opinions i, j, mu and epsilon in [0,1], UCM_adjust_opinion returns
\* normally and both returned values lie in [0,1], in either branch.
C1_OutputsInUnitInterval ==
    (fn = "adjust" /\ adj_ret # NotCalled /\ ValidArgs) =>
        /\ adj_ret.err = "none"
        /\ Unit(adj_ret.i_new)
        /\ Unit(adj_ret.j_new)

\* C1 witness: a repulsion whose unclamped value left [0,1] was returned clamped.
C1_Witness ==
    /\ fn = "adjust" /\ adj_ret # NotCalled /\ ValidArgs
    /\ adj_ret.branch = "repel"
    /\ ~Unit(RepelI(arg.i, arg.j, arg.mu))
    /\ Unit(adj_ret.i_new)

\* C8: rho returns -1 on [-1,-1/2), 0 on [-1/2,1/2], 1 on (1/2,1], and fails
\* with a domain error for every x outside [-1,1].
C8_RhoPiecewise ==
    (fn = "rho" /\ rho_ret # NotCalled) =>
        LET x == arg.x
        IN  /\ (Le(Neg(One), x) /\ Lt(x, Neg(Half))) => rho_ret = Returned(Neg(One))
            /\ (Le(Neg(Half), x) /\ Le(x, Half)) => rho_ret = Returned(Zero)
            /\ (Lt(Half, x) /\ Le(x, One)) => rho_ret = Returned(One)
            /\ (Lt(x, Neg(One)) \/ Lt(One, x)) => rho_ret.err = "AssertionError"

\* C8 witness: rho was called on the endpoint 1/2 and returned 0.
C8_Witness ==
    fn = "rho" /\ arg.x = Half /\ rho_ret = Returned(Zero)

\* C9: for valid arguments the result is (i + mu(j-i), j + mu(i-j)) when the
\* periodic distance is below epsilon, and otherwise the clamped repulsion pair
\* (i - mu((j-i) - rho(j-i)), j - mu((i-j) - rho(i-j))); and
\* (0.1, 0.9, 0.5, 0.3) gives (0.5, 0.5).
C9_AdjustmentFormula ==
    (fn = "adjust" /\ adj_ret # NotCalled /\ ValidArgs) =>
        LET i == arg.i
            j == arg.j
            m == arg.mu
        IN  /\ adj_ret.err = "none"
            /\ Lt(PeriodicDistance(i, j), arg.epsilon) =>
                  /\ adj_ret.i_new = Add(i, Mul(m, Sub(j, i)))
                  /\ adj_ret.j_new = Add(j, Mul(m, Sub(i, j)))
            /\ ~Lt(PeriodicDistance(i, j), arg.epsilon) =>
                  /\ adj_ret.i_new = Clamped(RepelI(i, j, m))
                  /\ adj_ret.j_new = Clamped(RepelJ(i, j, m))
            /\ (i = Rat(1, 10) /\ j = Rat(9, 10) /\ m = Half
                    /\ arg.epsilon = Rat(3, 10)) =>
                  (adj_ret.i_new = Half /\ adj_ret.j_new = Half)

\* C9 witness: a repulsion at difference exactly -1/2 with mu > 0 was returned.
C9_Witness ==
    /\ fn = "adjust" /\ adj_ret # NotCalled /\ ValidArgs
    /\ Sub(arg.i, arg.j) = Neg(Half)
    /\ Lt(Zero, arg.mu)
    /\ adj_ret.branch = "repel"
    /\ adj_ret.j_new = Clamped(RepelJ(arg.i, arg.j, arg.mu))

\* C10: for valid arguments the call with the opinions swapped takes the same
\* branch and returns the swapped pair.
C10_Symmetric ==
    (fn = "adjust" /\ adj_ret # NotCalled /\ swap_ret # NotCalled /\ ValidArgs) =>
        /\ swap_ret.branch = adj_ret.branch
        /\ swap_ret.i_new = adj_ret.j_new
        /\ swap_ret.j_new = adj_ret.i_new

\* C10 witness: both calls were made on a difference of exactly 1/2, assimilated,
\* and moved the opinions.
C10_Witness ==
    /\ fn = "adjust" /\ adj_ret # NotCalled /\ swap_ret # NotCalled /\ ValidArgs
    /\ Sub(arg.i, arg.j) = Half
    /\ adj_ret.branch = "assimilate"
    /\ swap_ret.branch = "assimilate"
    /\ adj_ret.i_new # arg.i

\* C11: with mu = 0 the call returns (i, j) unchanged, for all opinions i, j
\* and every epsilon in [0,1], in either branch.
C11_MuZeroFixedPoint ==
    (fn = "adjust" /\ adj_ret # NotCalled /\ ValidArgs /\ arg.mu = Zero) =>
        /\ adj_ret.err = "none"
        /\ adj_ret.i_new = arg.i
        /\ adj_ret.j_new = arg.j

\* C11 witness: two different opinions repelled with mu = 0 and came back unchanged.
C11_Witness ==
    /\ fn = "adjust" /\ adj_ret # NotCalled /\ ValidArgs /\ arg.mu = Zero
    /\ arg.i # arg.j
    /\ adj_ret.branch = "repel"
    /\ adj_ret.i_new = arg.i
    /\ adj_ret.j_new = arg.j

(* ---------------- claims about multiprocess_all (SpecSweep) ---------------- *)

SweepEnded == sw_pc \notin {"idle", "call", "starmap"}

FailedPoints == {k \in DOMAIN task : task[k] = "failed"}

\* the record the worker computes for grid point k
PointRecord(k) ==
    [analysis |-> <<param_grid[k][1], param_grid[k][2]>>,
     epsilon |-> param_grid[k][1], mu |-> param_grid[k][2]]

\* C2: when the worker of exactly one point of a sweep over several points
\* fails, the call still returns, and the results of all other points are in
\* what it returns.
C2_FailureIsolated ==
    (called = "multiprocess_all" /\ SweepEnded /\ Len(param_grid) > 1
        /\ Cardinality(FailedPoints) = 1) =>
        /\ list_of_dicts # NoneVal
        /\ \A k \in (DOMAIN task) \ FailedPoints :
              \E x \in DOMAIN list_of_dicts : list_of_dicts[x] = PointRecord(k)

Distinct(xs) == \A a, b \in DOMAIN xs : xs[a] = xs[b] => a = b

\* C4: for lists of distinct values, what multiprocess_all returns holds exactly
\* one record per (epsilon, mu) pair of the cross-product, each carrying the
\* epsilon and mu of the point it was computed for, whatever the completion order.
C4_OneRecordPerPoint ==
    (called = "multiprocess_all" /\ sw_pc = "returned"
        /\ Distinct(epsilon_values) /\ Distinct(mu_values)) =>
        /\ Len(list_of_dicts) = Len(epsilon_values) * Len(mu_values)
        /\ \A a \in DOMAIN epsilon_values, b \in DOMAIN mu_values :
              Cardinality({x \in DOMAIN list_of_dicts :
                              /\ list_of_dicts[x] # NoneVal
                              /\ list_of_dicts[x].epsilon = epsilon_values[a]
                              /\ list_of_dicts[x].mu = mu_values[b]}) = 1
        /\ \A x \in DOMAIN list_of_dicts :
              /\ list_of_dicts[x] # NoneVal
              /\ list_of_dicts[x].analysis
                    = <<list_of_dicts[x].epsilon, list_of_dicts[x].mu>>

\* C4 witness: a 2 x 2 sweep returned although its workers ended out of grid order.
C4_Witness ==
    /\ called = "multiprocess_all"
    /\ sw_pc = "returned"
    /\ Distinct(epsilon_values) /\ Distinct(mu_values)
    /\ Len(list_of_dicts) = 4
    /\ out_of_order
    /\ \A x \in DOMAIN list_of_dicts : list_of_dicts[x] = PointRecord(x)

(* ---------------- claims about run_sim (Spec) ---------------- *)

ValidRunArgs ==
    /\ N.int /\ Lt(One, N.v)
    /\ T.int /\ Lt(One, T.v)
    /\ Unit(mu)
    /\ Unit(epsilon)

\* C3: a call whose N or T is not an integer greater than 1, or whose mu or
\* epsilon is outside [0,1], never gets as far as initializing the graph.
C3_RejectsInvalid == ~ValidRunArgs => g = 0

\* C5: the initial graph run_sim holds, and returns, equals the graph as it was
\* right after initialization, whatever was written to the running graph since.
C5_SnapshotUnchanged == g_init # 0 => graphs[g_init] = post_init

\* C5 witness: the run is done, opinions and edges of the running graph differ
\* from the initial ones, and the snapshot is the initial graph.
C5_Witness ==
    /\ pc = "done"
    /\ graphs[g].opinion # post_init.opinion
    /\ graphs[g].edges # post_init.edges
    /\ graphs[g_init] = post_init

\* C6: the node ids of the running graph are always the ids created at
\* initialization, 0..N-1.
C6_NodeSetInvariant ==
    g # 0 =>
        /\ graphs[g].nodes = post_init.nodes
        /\ N.int => graphs[g].nodes = 0..(N.v[1] - 1)

\* C6 witness: a rewire has replaced an edge and the node ids are still 0..N-1.
C6_Witness ==
    /\ pc = "for_node"
    /\ N.int
    /\ graphs[g].edges \ post_init.edges # {}
    /\ graphs[g].nodes = 0..(N.v[1] - 1)

\* C7: every edge of the running graph joins two distinct node ids of the graph.
C7_EdgesWellFormed ==
    g # 0 =>
        \A e \in graphs[g].edges :
            /\ Cardinality(e) = 2
            /\ e \subseteq graphs[g].nodes
            /\ e \subseteq post_init.nodes

\* C7 witness: after a rewire changed the edge set, a later rewire drew the node
\* itself as new neighbor, which the loop draws again; every edge is well-formed.
C7_Witness ==
    /\ pc = "while"
    /\ new_neighbor = node
    /\ graphs[g].edges # post_init.edges
    /\ \A e \in graphs[g].edges : Cardinality(e) = 2

\* no edge of G has n as an endpoint
Isolated(G, n) == \A e \in G.edges : n \notin e

\* the step processes the node at the head of the rest of the sweep's list
Processing == pc = "for_node" /\ pos <= Len(nodes)

\* C12: processing a node that has no neighbor changes nothing in the graph, and
\* no step changes the opinion of a node that has no neighbor; hence a node
\* without neighbor throughout a sweep ends the sweep with the opinion it began with.
C12_IsolatedUnchanged ==
    [][(g # 0 /\ g' # 0) =>
        /\ (Processing /\ Isolated(graphs[g], nodes[pos])) =>
              (graphs[g])' = graphs[g]
        /\ \A n \in graphs[g].nodes :
              Isolated(graphs[g], n) => (graphs[g].opinion[n])' = graphs[g].opinion[n]
      ]_vars

\* C12 witness: in a graph whose opinions have changed, the node just passed
\* over has no neighbor and still has its initial opinion.
C12_Witness ==
    /\ pc = "for_node" /\ pos > 1
    /\ Isolated(graphs[g], nodes[pos - 1])
    /\ graphs[g].opinion # post_init.opinion
    /\ graphs[g].opinion[nodes[pos - 1]] = post_init.opinion[nodes[pos - 1]]

\* the step that ends the while loop and performs lines 114-115
RewireStep == pc = "while" /\ pc' = "for_node"

\* the step that interacts the node at pos with one of its neighbors
InteractStep == Processing /\ ~Isolated(graphs[g], nodes[pos]) /\ pc' \in {"for_node", "while"}

\* |o[u] - o[v]| > e  on the opinions of graph G
Apart(G, u, v, e) == Lt(e, abs(Sub(G.opinion[u], G.opinion[v])))

\* C14: an interaction whose written opinions differ by more than epsilon ends
\* with an edge from the node to a drawn node w other than itself, and without
\* the edge to the chosen neighbor unless w is that neighbor; an interaction
\* whose written opinions differ by at most epsilon leaves the edge set as it
\* was; an edge that does not have the node as an endpoint is never touched.
C14_RewireFrame ==
    [][(g # 0 /\ g' # 0) =>
        /\ RewireStep =>
              /\ Apart(graphs[g], node, neighbor, epsilon)
              /\ new_neighbor # node
              /\ Edge(node, new_neighbor) \in (graphs[g].edges)'
              /\ Edge(node, neighbor) \notin (graphs[g].edges)' \/ new_neighbor = neighbor
              /\ \A e \in graphs[g].edges \cup (graphs[g].edges)' :
                    node \notin e => (e \in graphs[g].edges <=> e \in (graphs[g].edges)')
        /\ (InteractStep /\ pc' = "while") =>
              /\ (graphs[g].edges)' = graphs[g].edges
              /\ node' = nodes[pos] /\ neighbor' \in neighbors(graphs[g], nodes[pos])
              /\ Apart(graphs[g]', node', neighbor', epsilon)
        /\ (InteractStep /\ pc' = "for_node") =>
              /\ (graphs[g].edges)' = graphs[g].edges
              /\ \E nb \in neighbors(graphs[g], nodes[pos]) :
                    ~Apart(graphs[g]', nodes[pos], nb, epsilon)
      ]_vars

\* C14 witness: the first node processed has rewired, it lost an edge it had
\* at the start and has an edge it did not have.
C14_Witness ==
    /\ pc = "for_node" /\ t = 0 /\ pos = 2
    /\ \E e \in post_init.edges \ graphs[g].edges : nodes[1] \in e
    /\ \E e \in graphs[g].edges \ post_init.edges : nodes[1] \in e
    /\ \A e \in graphs[g].edges : nodes[1] \notin e => e \in post_init.edges

\* the positions of a run that has not failed
RunStates == {"call", "initialize", "for_t", "for_node", "while", "done"}

\* C15: a call with N and T integers greater than 1 and mu, epsilon in [0,1]
\* goes from the call through its sweeps to done, and never stops in an error.
C15_ValidRunCompletes == ValidRunArgs => pc \in RunStates

\* C16: once the graph exists every node's opinion lies in [0,1], and no
\* interaction of the run fails an assertion of UCM_adjust_opinion or rho.
C16_OpinionsInUnitInterval ==
    g # 0 =>
        /\ pc # "AssertionError"
        /\ \A n \in DOMAIN graphs[g].opinion : Unit(graphs[g].opinion[n])

\* C16 witness: a pair has repelled, the node's opinion was pushed to an end of
\* the interval it did not start at, and the rewire is under way.
C16_Witness ==
    /\ pc = "while"
    /\ last_branch = "repel"
    /\ graphs[g].opinion[node] \in {Zero, One}
    /\ post_init.opinion[node] \notin {Zero, One}

\* C17: the step that takes the edge between the node and its chosen neighbor
\* out of the graph follows an interaction in which the pair repelled, that is,
\* whose periodic distance was at least epsilon; a pair that assimilated keeps
\* its edge.
C17_RemovesOnlyRepelled ==
    [][(RewireStep /\ Edge(node, neighbor) \notin (graphs[g].edges)') =>
            last_branch = "repel"]_vars

\* C18: no step of a run adds to the number of edges; the rewire step keeps the
\* number when the drawn node was not adjacent to the node through another
\* edge than the removed one, and lowers it by exactly one when it was.
C18_EdgeCountNeverGrows ==
    [][(g # 0 /\ g' # 0) =>
        /\ Cardinality((graphs[g].edges)') <= Cardinality(graphs[g].edges)
        /\ RewireStep =>
              Cardinality((graphs[g].edges)') =
                  IF Edge(node, new_neighbor) \in graphs[g].edges \ {Edge(node, neighbor)}
                  THEN Cardinality(graphs[g].edges) - 1
                  ELSE Cardinality(graphs[g].edges)
      ]_vars

\* C18 witness: a rewire onto a node that was already adjacent has left the
\* running graph with fewer edges than it started with.
C18_Witness ==
    /\ pc = "for_node"
    /\ Cardinality(graphs[g].edges) < Cardinality(post_init.edges)

\* C19: a node processed while it has a neighbor has a neighbor when its
\* processing ends, with or without a rewire; a node loses its last neighbor
\* only in the rewire step of another node that had chosen it as neighbor.
C19_ProcessedKeepsNeighbor ==
    [][(g # 0 /\ g' # 0) =>
        /\ InteractStep => ~Isolated(graphs[g]', nodes[pos])
        /\ RewireStep => ~Isolated(graphs[g]', node)
        /\ \A n \in graphs[g].nodes :
              (~Isolated(graphs[g], n) /\ Isolated(graphs[g]', n)) =>
                  RewireStep /\ n = neighbor /\ n # node
      ]_vars

\* C19 witness: the node processed last has rewired away from a node that had
\* a neighbor at the start and has none now, and has a neighbor itself.
C19_Witness ==
    /\ pc = "for_node" /\ pos > 1
    /\ ~Isolated(graphs[g], nodes[pos - 1])
    /\ \E n \in graphs[g].nodes \ {nodes[pos - 1]} :
          /\ Isolated(graphs[g], n)
          /\ Edge(n, nodes[pos - 1]) \in post_init.edges
          /\ ~Isolated(post_init, n)

(* ---------------- claims about multiprocess_variance_epsilon (SpecSweep) ---------------- *)

\* C13: what multiprocess_variance_epsilon returns is a flat sequence with one
\* result per input epsilon, the k-th being the one computed for the k-th
\* epsilon, whatever the order in which the workers ended.
C13_VariancesAligned ==
    (called = "multiprocess_variance_epsilon" /\ sw_pc = "returned") =>
        /\ Len(list_of_dicts) = Len(epsilon_values)
        /\ \A k \in DOMAIN epsilon_values :
              list_of_dicts[k] = [variance_of |-> epsilon_values[k]]

\* C13 witness: two different epsilons, the worker of the second ended first,
\* and the call returned both results.
C13_Witness ==
    /\ called = "multiprocess_variance_epsilon"
    /\ sw_pc = "returned"
    /\ out_of_order
    /\ Len(epsilon_values) > 1
    /\ epsilon_values[1] # epsilon_values[2]
    /\ Len(list_of_dicts) = Len(epsilon_values)

====
